---- MODULE Spec2Model ----
(***************************************************************************)
(* Control plane of the live-streaming server: src/protocol/api/api.go.   *)
(*                                                                         *)
(* State: the relay-session registry (Server.session), the relay workers   *)
(* it created, the room-key store, the stream registry of the RTMP engine, *)
(* the configuration read at start, and one record per request handler in  *)
(* flight (its position in the handler and its local variables).           *)
(*                                                                         *)
(* A handler is a function Step from (shared state, locals) to (shared     *)
(* state, locals).  The sequential specifications run a handler to its end *)
(* in one action; the concurrent specification runs one Step at a time, so *)
(* that the goroutines net/http starts per request interleave at every     *)
(* access to shared state.                                                 *)
(***************************************************************************)
EXTENDS Integers, Sequences, FiniteSets, TLC

VARIABLES
    session,    \* Server.session: session key -> index of its relay in relays
    relays,     \* every relay worker NewRtmpRelay has created, in creation order
    RoomKeys,   \* configure.RoomKeys: room -> access key
    streams,    \* rtmpStream.GetStreams(): stream key -> stream
    handler,    \* Server.handler: what the av.Handler interface value holds
    jwtSecret,  \* configure.Config "jwt.secret", read when Serve wraps the mux
    inflight,   \* request handlers: handler id -> position and locals
    crashed     \* the Go runtime threw on a concurrent map access

vars == <<session, relays, RoomKeys, streams, handler, jwtSecret, inflight, crashed>>

(***************************************************************************)
(* Bounds.                                                                 *)
(***************************************************************************)
\* Relay workers created in one run.
MaxRelays == 2
\* Request handlers (goroutines) in flight at once in the concurrent specification.
MaxHandlers == 2

Handlers == 1..MaxHandlers

(***************************************************************************)
(* Configuration and request inputs.                                       *)
(***************************************************************************)
apiKey == "key"                 \* Serve's apiKey argument
rtmpAddr == ":1935"             \* Server.rtmpAddr
AuthHeaders == {apiKey, "nokey"}
JwtSecrets == {"", "secret"}
\* What NewServer is given as its av.Handler: the engine's *RtmpStream.  (A nil
\* *RtmpStream in the interface is the "nilRtmpStream" the handlers test for.)
ServerHandlers == {"RtmpStream"}
Opers == {"start", "stop"}
Apps == {"", "live"}
Names == {"", "n1"}
TwoNames == {"", "n1", "n2"}
Urls == {"", "rtmp://h/live/n1"}
Rooms == {"", "r1"}
ControlRoutes == {"/control/push", "/control/pull"}
RoomRoutes == {"/control/reset", "/control/get", "/control/delete", "/stats/livestat"}

(***************************************************************************)
(* Response.Data is an interface{}: nil, a string, a stream or a *streams. *)
(***************************************************************************)
Nil == [t |-> "nil"]
StrData(s) == [t |-> "string", v |-> s]
StreamData(s) == [t |-> "stream", v |-> s]
StreamsData(p, q) == [t |-> "streams", publishers |-> p, players |-> q]

(***************************************************************************)
(* A request: the route, the authorization header, the verdict of the JWT  *)
(* library on its token, whether ParseForm succeeds, the form values, and  *)
(* the outcomes of the fallible collaborators it will meet (the relay's    *)
(* Start, the room-key store).                                             *)
(***************************************************************************)
Request(route, auth, tokenOk, parseOk, oper, app, name, url, room, startErr, storeErr) ==
    [route |-> route, authorization |-> auth, tokenOk |-> tokenOk, parseOk |-> parseOk,
     oper |-> oper, app |-> app, name |-> name, url |-> url, room |-> room,
     startErr |-> startErr, storeErr |-> storeErr]

NoRequest == Request("", "", FALSE, FALSE, "", "", "", "", "", FALSE, FALSE)

\* The locals of a handler: res (status, data), what SendJson wrote (sent counts the
\* writes), and handlePush/handlePull's keyString, relay and found.  overlap is a
\* history of the schedule: the handlers that were in flight with this one.
NewHandler(req) ==
    [pc |-> "serve", req |-> req, status |-> 0, data |-> Nil, sent |-> 0,
     keyString |-> "", relay |-> 0, found |-> FALSE, overlap |-> {}]

IdleHandler == [NewHandler(NoRequest) EXCEPT !.pc = "idle"]

\* The shared state a handler step reads and writes.
Shared ==
    [session |-> session, relays |-> relays, RoomKeys |-> RoomKeys, streams |-> streams,
     handler |-> handler, jwtSecret |-> jwtSecret]

Ret(g, l) == [g |-> g, l |-> l]

(***************************************************************************)
(* Response.SendJson: one WriteHeader and one Write on the request's       *)
(* ResponseWriter.  Every handler defers it, so it runs at each return.    *)
(***************************************************************************)
SendJson(l) == [l EXCEPT !.sent = @ + 1, !.pc = "done"]

(***************************************************************************)
(* The Go map Server.session.                                              *)
(***************************************************************************)
EmptyMap == [k \in {} |-> 0]

MapInsert(m, k, v) == [x \in DOMAIN m \cup {k} |-> IF x = k THEN v ELSE m[x]]

\* A delete that leaves the entry in place.
MapDeleteNoop(m, k) == m
MapDelete(m, k) == [x \in DOMAIN m \ {k} |-> m[x]]

(***************************************************************************)
(* rtmprelay.RtmpRelay: NewRtmpRelay(playurl, publishurl), Start, Stop.    *)
(* key is the session key of the request that created the worker.          *)
(***************************************************************************)
NewRtmpRelay(playurl, publishurl, key) ==
    [PlayUrl |-> playurl, PublishUrl |-> publishurl, startflag |-> FALSE, stops |-> 0,
     key |-> key]

RelayStart(r) == [r EXCEPT !.startflag = TRUE]

RelayStop(r) == [r EXCEPT !.startflag = FALSE, !.stops = @ + 1]

(***************************************************************************)
(* The gates: JWTMiddleware around the mux, checkAuth in each route.       *)
(***************************************************************************)
\* A middleware that is never installed.
isJWTNever(secret) == FALSE
\* JWTMiddleware returns next itself when no secret is configured.
isJWT(secret) == secret # ""

\* The jwtmiddleware ErrorHandler: 403 with the validator's error string.
JWTReject(l) ==
    SendJson([l EXCEPT !.status = 403, !.data = StrData("token error")])

\* A gate that lets every header through.
checkAuthNever(expectedKey, l) == FALSE
\* checkAuth returns true when it has rejected the request.
checkAuth(expectedKey, l) == l.req.authorization # expectedKey

Unauthorized(l) ==
    SendJson([l EXCEPT !.status = 401, !.data = StrData("Unauthorized")])

(***************************************************************************)
(* handlePush.                                                             *)
(***************************************************************************)
\* A local URL without the server's RTMP address.
LocalURLNoAddr(app, name) == "rtmp://127.0.0.1" \o "/" \o app \o "/" \o name
LocalURL(app, name) == "rtmp://127.0.0.1" \o rtmpAddr \o "/" \o app \o "/" \o name

PushUsage ==
    "url: /control/push?&oper=start&app=live&name=123456&url=rtmp://192.168.16.136/live/123456"
PullUsage ==
    "url: /control/pull?&oper=start&app=live&name=123456&url=rtmp://192.168.16.136/live/123456"
ParamError == "control push parameter error, please check them."

ParamMissing(req) == req.app = "" \/ req.name = "" \/ req.url = ""

\* A key that leaves the name out.
PushKeyAppOnly(app, name) == "push:" \o app
PushKey(app, name) == "push:" \o app \o "/" \o name
\* A pull key without its own direction.
PullKeyAsPush(app, name) == "push:" \o app \o "/" \o name
PullKey(app, name) == "pull:" \o app \o "/" \o name

\* The error of Start() is not looked at.
StartFailedIgnored(req) == FALSE
\* err != nil after Start()
StartFailed(req) == req.startErr

\* A handlePush that starts a worker only when asked to "start".
handlePushEntryStartOnly(g, l0) ==
    LET l == [l0 EXCEPT !.status = 200, !.data = Nil]
        req == l.req
    IN  IF ~req.parseOk
        THEN Ret(g, SendJson([l EXCEPT !.data = StrData(PushUsage)]))
        ELSE IF ParamMissing(req)
        THEN Ret(g, SendJson([l EXCEPT !.data = StrData(ParamError)]))
        ELSE LET localurl == LocalURL(req.app, req.name)
                 remoteurl == req.url
                 lk == [l EXCEPT !.keyString = PushKey(req.app, req.name)]
             IN  IF req.oper # "start"
                 THEN Ret(g, [lk EXCEPT !.pc = "lookup"])
                 ELSE Ret([g EXCEPT !.relays =
                              Append(@, NewRtmpRelay(localurl, remoteurl, lk.keyString))],
                          [lk EXCEPT !.relay = Len(g.relays) + 1, !.pc = "start"])

\* From the top of handlePush to its first access to shared state.
handlePushEntry(g, l0) ==
    LET l == [l0 EXCEPT !.status = 200, !.data = Nil]
        req == l.req
    IN  IF ~req.parseOk
        THEN Ret(g, SendJson([l EXCEPT !.data = StrData(PushUsage)]))
        ELSE IF ParamMissing(req)
        THEN Ret(g, SendJson([l EXCEPT !.data = StrData(ParamError)]))
        ELSE LET localurl == LocalURL(req.app, req.name)
                 remoteurl == req.url
                 lk == [l EXCEPT !.keyString = PushKey(req.app, req.name)]
             IN  IF req.oper = "stop"
                 THEN Ret(g, [lk EXCEPT !.pc = "lookup"])
                 ELSE Ret([g EXCEPT !.relays =
                              Append(@, NewRtmpRelay(localurl, remoteurl, lk.keyString))],
                          [lk EXCEPT !.relay = Len(g.relays) + 1, !.pc = "start"])

\* One step of handlePush from its position l.pc.
handlePushStep(g, l) ==
    CASE l.pc = "lookup" -> Ret(g, [l EXCEPT !.pc = "in_lookup"])
      [] l.pc = "in_lookup" ->
            IF l.keyString \notin DOMAIN g.session
            THEN Ret(g, SendJson([l EXCEPT !.found = FALSE, !.data =
                    StrData("<h1>session key[" \o l.keyString
                            \o "] not exist, please check it again.</h1>")]))
            ELSE Ret(g, [l EXCEPT !.found = TRUE, !.relay = g.session[l.keyString],
                                  !.pc = "stop"])
      [] l.pc = "stop" ->
            Ret([g EXCEPT !.relays[l.relay] = RelayStop(@)], [l EXCEPT !.pc = "delete"])
      [] l.pc = "delete" -> Ret(g, [l EXCEPT !.pc = "in_delete"])
      [] l.pc = "in_delete" ->
            Ret([g EXCEPT !.session = MapDelete(@, l.keyString)],
                SendJson([l EXCEPT !.data =
                    StrData("<h1>push url stop " \o l.req.url \o " ok</h1></br>")]))
      [] l.pc = "start" ->
            IF StartFailed(l.req)
            THEN Ret(g, SendJson([l EXCEPT !.data = StrData("push error=start failed")]))
            ELSE Ret([g EXCEPT !.relays[l.relay] = RelayStart(@)],
                     [l EXCEPT !.pc = "insert"])
      [] l.pc = "insert" -> Ret(g, [l EXCEPT !.pc = "in_insert"])
      [] l.pc = "in_insert" ->
            Ret([g EXCEPT !.session = MapInsert(@, l.keyString, l.relay)],
                SendJson([l EXCEPT !.data =
                    StrData("<h1>push url start " \o l.req.url \o " ok</h1></br>")]))

(***************************************************************************)
(* handlePull: the relay plays the request's url and publishes into the    *)
(* local engine; every path after the form is parsed sets status 400.      *)
(***************************************************************************)
handlePullEntry(g, l0) ==
    LET l == [l0 EXCEPT !.status = 200, !.data = Nil]
        req == l.req
    IN  IF ~req.parseOk
        THEN Ret(g, SendJson([l EXCEPT !.status = 400, !.data = StrData(PullUsage)]))
        ELSE IF ParamMissing(req)
        THEN Ret(g, SendJson([l EXCEPT !.status = 400, !.data = StrData(ParamError)]))
        ELSE LET remoteurl == LocalURL(req.app, req.name)
                 localurl == req.url
                 lk == [l EXCEPT !.keyString = PullKey(req.app, req.name)]
             IN  IF req.oper = "stop"
                 THEN Ret(g, [lk EXCEPT !.pc = "lookup"])
                 ELSE Ret([g EXCEPT !.relays =
                              Append(@, NewRtmpRelay(localurl, remoteurl, lk.keyString))],
                          [lk EXCEPT !.relay = Len(g.relays) + 1, !.pc = "start"])

handlePullStep(g, l) ==
    CASE l.pc = "lookup" -> Ret(g, [l EXCEPT !.pc = "in_lookup"])
      [] l.pc = "in_lookup" ->
            IF l.keyString \notin DOMAIN g.session
            THEN Ret(g, SendJson([l EXCEPT !.found = FALSE, !.status = 400, !.data =
                    StrData("session key[" \o l.keyString
                            \o "] not exist, please check it again.")]))
            ELSE Ret(g, [l EXCEPT !.found = TRUE, !.relay = g.session[l.keyString],
                                  !.pc = "stop"])
      [] l.pc = "stop" ->
            Ret([g EXCEPT !.relays[l.relay] = RelayStop(@)], [l EXCEPT !.pc = "delete"])
      [] l.pc = "delete" -> Ret(g, [l EXCEPT !.pc = "in_delete"])
      [] l.pc = "in_delete" ->
            Ret([g EXCEPT !.session = MapDelete(@, l.keyString)],
                SendJson([l EXCEPT !.status = 400, !.data =
                    StrData("<h1>push url stop " \o l.req.url \o " ok</h1></br>")]))
      [] l.pc = "start" ->
            IF StartFailed(l.req)
            THEN Ret(g, SendJson([l EXCEPT !.status = 400,
                                           !.data = StrData("push error=start failed")]))
            ELSE Ret([g EXCEPT !.relays[l.relay] = RelayStart(@)],
                     [l EXCEPT !.pc = "insert"])
      [] l.pc = "insert" -> Ret(g, [l EXCEPT !.pc = "in_insert"])
      [] l.pc = "in_insert" ->
            Ret([g EXCEPT !.session = MapInsert(@, l.keyString, l.relay)],
                SendJson([l EXCEPT !.status = 400, !.data =
                    StrData("<h1>push url start " \o l.req.url \o " ok</h1></br>")]))

(***************************************************************************)
(* The collaborators of the room and stats routes.                         *)
(***************************************************************************)
\* configure.RoomKeys: SetKey stores a fresh key for the room and returns it.
NewRoomKey == "k1"
RoomKeysSetKey(m, room) == [x \in DOMAIN m \cup {room} |-> IF x = room THEN NewRoomKey ELSE m[x]]
\* configure.RoomKeys.DeleteChannel reports whether the room was there.
RoomKeysDeleteChannel(m, room) == [x \in DOMAIN m \ {room} |-> m[x]]

\* rtmp.Stream: its reader, its writer set, and whether it was torn down.
Stream(readerKind, writerKinds) ==
    [reader |-> readerKind, ws |-> writerKinds, closed |-> FALSE]
\* Stream.TransStop followed by Stream.CloseAndComplete.
StreamTearDown(s) == [s EXCEPT !.closed = TRUE]

StreamKey(room) == "live/" \o room

\* The stream struct built from a VirReader: key, Info().URL and ReadBWInfo.
ReaderStat(key) ==
    [Key |-> key, Url |-> "rtmp://127.0.0.1" \o rtmpAddr \o "/" \o key, StreamId |-> 1,
     VideoTotalBytes |-> 0, VideoSpeed |-> 0, AudioTotalBytes |-> 0, AudioSpeed |-> 0]

(***************************************************************************)
(* GetLiveStat.                                                            *)
(***************************************************************************)
GetLiveStat(g, l0) ==
    LET l == [l0 EXCEPT !.status = 200, !.data = Nil]
        key == StreamKey(l.req.room)
        fail(st, msg) == Ret(g, SendJson([l EXCEPT !.status = st, !.data = StrData(msg)]))
    IN  IF g.handler = "nilRtmpStream" THEN fail(500, "Get rtmp stream information error")
        ELSE IF ~l.req.parseOk THEN fail(500, "Failed to parse form")
        ELSE IF key \notin DOMAIN g.streams THEN fail(404, "No room was found")
        ELSE IF g.streams[key].reader = "nil" THEN fail(500, "This room has no readers")
        ELSE IF g.streams[key].reader = "VirReader"
        THEN Ret(g, SendJson([l EXCEPT !.data = StreamData(ReaderStat(key))]))
        ELSE fail(500, "Reader returned by RTMP stream was not virtual reader.")

(***************************************************************************)
(* GetLiveStatics: the two Range passes over the stream registry.          *)
(***************************************************************************)
\* A first pass that narrows nothing: every reader that is there gets an entry.
RECURSIVE PublishersAnyReader(_, _)
PublishersAnyReader(ss, keys) ==
    IF keys = {} THEN <<>>
    ELSE LET k == CHOOSE x \in keys : TRUE
             rest == PublishersAnyReader(ss, keys \ {k})
         IN  IF ss[k].reader # "nil" THEN <<ReaderStat(k)>> \o rest ELSE rest

RECURSIVE Publishers(_, _)
Publishers(ss, keys) ==
    IF keys = {} THEN <<>>
    ELSE LET k == CHOOSE x \in keys : TRUE
             rest == Publishers(ss, keys \ {k})
         IN  IF ss[k].reader = "VirReader" THEN <<ReaderStat(k)>> \o rest ELSE rest

RECURSIVE WriterStats(_, _, _)
WriterStats(key, ws, i) ==
    IF i > Len(ws) THEN <<>>
    ELSE IF ws[i] = "VirWriter"
         THEN <<[ReaderStat(key) EXCEPT !.StreamId = i]>> \o WriterStats(key, ws, i + 1)
         ELSE WriterStats(key, ws, i + 1)

RECURSIVE Players(_, _)
Players(ss, keys) ==
    IF keys = {} THEN <<>>
    ELSE LET k == CHOOSE x \in keys : TRUE
         IN  WriterStats(k, ss[k].ws, 1) \o Players(ss, keys \ {k})

GetLiveStatics(g, l0) ==
    LET l == [l0 EXCEPT !.status = 200, !.data = Nil]
    IN  IF g.handler = "nilRtmpStream"
        THEN Ret(g, SendJson([l EXCEPT !.status = 500,
                                       !.data = StrData("Get rtmp stream information error")]))
        ELSE Ret(g, SendJson([l EXCEPT !.data =
                 StreamsData(Publishers(g.streams, DOMAIN g.streams),
                             Players(g.streams, DOMAIN g.streams))]))

(***************************************************************************)
(* handleReset, handleGet, handleDelete.                                   *)
(***************************************************************************)
RoomUsage(route) == "url: " \o route \o "?room=<ROOM_NAME>"

handleReset(g, l0) ==
    LET l == [l0 EXCEPT !.status = 200, !.data = Nil]
        room == l.req.room
    IN  IF ~l.req.parseOk \/ room = ""
        THEN Ret(g, SendJson([l EXCEPT !.status = 400,
                                       !.data = StrData(RoomUsage("/control/reset"))]))
        ELSE IF l.req.storeErr
        THEN Ret(g, SendJson([l EXCEPT !.status = 400, !.data = StrData("store error")]))
        ELSE Ret([g EXCEPT !.RoomKeys = RoomKeysSetKey(@, room)],
                 SendJson([l EXCEPT !.data = StrData(NewRoomKey)]))

handleGet(g, l0) ==
    LET l == [l0 EXCEPT !.status = 200, !.data = Nil]
        room == l.req.room
    IN  IF ~l.req.parseOk \/ room = ""
        THEN Ret(g, SendJson([l EXCEPT !.status = 400,
                                       !.data = StrData(RoomUsage("/control/get"))]))
        ELSE IF l.req.storeErr \/ room \notin DOMAIN g.RoomKeys
        THEN Ret(g, SendJson([l EXCEPT !.status = 400, !.data = StrData("store error")]))
        ELSE Ret(g, SendJson([l EXCEPT !.data = StrData(g.RoomKeys[room])]))

handleDelete(g, l0) ==
    LET l == [l0 EXCEPT !.status = 200, !.data = Nil]
        room == l.req.room
        key == StreamKey(room)
        fail(gg, st, msg) == Ret(gg, SendJson([l EXCEPT !.status = st, !.data = StrData(msg)]))
    IN  IF ~l.req.parseOk \/ room = "" THEN fail(g, 400, RoomUsage("/control/delete"))
        ELSE IF g.handler = "nilRtmpStream"
        THEN fail(g, 500, "Get rtmp stream information error")
        ELSE IF key \notin DOMAIN g.streams THEN fail(g, 404, "No room was found")
        ELSE LET g1 == [g EXCEPT !.streams[key] = StreamTearDown(@)]
             IN  IF room \in DOMAIN g1.RoomKeys
                 THEN Ret([g1 EXCEPT !.RoomKeys = RoomKeysDeleteChannel(@, room)],
                          SendJson([l EXCEPT !.data = StrData("Ok")]))
                 ELSE fail(g1, 404, "room not found")

(***************************************************************************)
(* Serve: the JWT middleware, then the route's closure (checkAuth, then    *)
(* the handler).  The first step of a request runs up to the handler's     *)
(* first access to shared state.                                           *)
(***************************************************************************)
Dispatch(g, l) ==
    CASE l.req.route = "/control/push" -> handlePushEntry(g, l)
      [] l.req.route = "/control/pull" -> handlePullEntry(g, l)
      [] l.req.route = "/control/get" -> handleGet(g, l)
      [] l.req.route = "/control/reset" -> handleReset(g, l)
      [] l.req.route = "/control/delete" -> handleDelete(g, l)
      [] l.req.route = "/stats/livestats" -> GetLiveStatics(g, l)
      [] l.req.route = "/stats/livestat" -> GetLiveStat(g, l)

ServeHTTP(g, l) ==
    IF isJWT(g.jwtSecret) /\ ~l.req.tokenOk THEN Ret(g, JWTReject(l))
    ELSE IF checkAuth(apiKey, l) THEN Ret(g, Unauthorized(l))
    ELSE Dispatch(g, l)

Step(g, l) ==
    CASE l.pc = "serve" -> ServeHTTP(g, l)
      [] l.pc # "serve" /\ l.req.route = "/control/push" -> handlePushStep(g, l)
      [] l.pc # "serve" /\ l.req.route = "/control/pull" -> handlePullStep(g, l)

\* A handler run to its return with no other handler running.
RECURSIVE RunToEnd(_)
RunToEnd(r) == IF r.l.pc = "done" THEN r ELSE RunToEnd(Step(r.g, r.l))

(***************************************************************************)
(* Requests.                                                               *)
(***************************************************************************)
TokenVerdicts == IF isJWT(jwtSecret) THEN BOOLEAN ELSE {FALSE}

\* Whether the gates let a request with these credentials through.
Admitted(a, t) == a = apiKey /\ (isJWT(jwtSecret) => t)

\* The form values of a request to /control/push or /control/pull: a form that
\* does not parse yields none; Start is only met by a start with all values.
RelayForms(names) ==
    {[parseOk |-> FALSE, oper |-> "", app |-> "", name |-> "", url |-> "", startErr |-> FALSE]}
    \cup
    UNION {{[parseOk |-> TRUE, oper |-> o, app |-> ap, name |-> n, url |-> u, startErr |-> e] :
              e \in IF o # "stop" /\ ap # "" /\ n # "" /\ u # "" THEN BOOLEAN ELSE {FALSE}} :
           o \in Opers, ap \in Apps, n \in names, u \in Urls}

\* The forms sent with credentials the gates reject: the gates read no form value.
GateForms(names) ==
    {f \in RelayForms(names) :
        \/ ~f.parseOk
        \/ f.app # "" /\ f.name # "" /\ f.url # "" /\ ~f.startErr
        \/ f.app = "" /\ f.name = "" /\ f.url = "" /\ f.oper = "start"}

RelayRequests(routes, names) ==
    UNION {{Request(rt, a, t, f.parseOk, f.oper, f.app, f.name, f.url, "", f.startErr, FALSE) :
              f \in IF Admitted(a, t) THEN RelayForms(names) ELSE GateForms(names)} :
           rt \in routes, a \in AuthHeaders, t \in TokenVerdicts}

\* A request to a room route; the store's failure is only met by get and reset.
RoomRequests(rt) ==
    {Request(rt, a, t, FALSE, "", "", "", "", "", FALSE, FALSE) :
        a \in AuthHeaders, t \in TokenVerdicts}
    \cup
    UNION {{Request(rt, a, t, TRUE, "", "", "", "", rm, FALSE, e) :
              e \in IF rm # "" /\ rt \in {"/control/get", "/control/reset"}
                    THEN BOOLEAN ELSE {FALSE}} :
           a \in AuthHeaders, t \in TokenVerdicts, rm \in Rooms}

StatsRequests ==
    {Request("/stats/livestats", a, t, TRUE, "", "", "", "", "", FALSE, FALSE) :
        a \in AuthHeaders, t \in TokenVerdicts}

(***************************************************************************)
(* Initial state: NewServer's empty registry; the engine and the room-key  *)
(* store in one of the states the routes distinguish.                      *)
(***************************************************************************)
StreamRegistries ==
    {[k \in {} |-> 0],
     [k \in {StreamKey("r1")} |-> Stream("VirReader", <<"VirWriter", "FLVWriter">>)],
     [k \in {StreamKey("r1")} |-> Stream("nil", <<>>)],
     [k \in {StreamKey("r1")} |-> Stream("StaticPush", <<"VirWriter">>)]}

RoomKeyStores == {[k \in {} |-> ""], [k \in {"r1"} |-> "k0"]}

Init ==
    /\ session = EmptyMap
    /\ relays = <<>>
    /\ RoomKeys \in RoomKeyStores
    /\ streams \in StreamRegistries
    /\ handler \in ServerHandlers
    /\ jwtSecret \in JwtSecrets
    /\ inflight = [h \in Handlers |-> IdleHandler]
    /\ crashed = FALSE

Commit(g) ==
    /\ session' = g.session
    /\ relays' = g.relays
    /\ RoomKeys' = g.RoomKeys
    /\ streams' = g.streams
    /\ UNCHANGED <<handler, jwtSecret, crashed>>

(***************************************************************************)
(* Sequential service: one request at a time, each handler run to its      *)
(* return before the next request arrives.                                 *)
(***************************************************************************)
Handle(req) ==
    \E r \in {RunToEnd(Ret(Shared, NewHandler(req)))} :
        /\ Len(r.g.relays) <= MaxRelays
        /\ Commit(r.g)
        /\ inflight' = [inflight EXCEPT ![1] = r.l]

Idle == inflight[1].pc = "idle"

ServePush == Idle /\ \E req \in RelayRequests({"/control/push"}, Names) : Handle(req)
ServePull == Idle /\ \E req \in RelayRequests({"/control/pull"}, Names) : Handle(req)
ServeReset == Idle /\ \E req \in RoomRequests("/control/reset") : Handle(req)
ServeGet == Idle /\ \E req \in RoomRequests("/control/get") : Handle(req)
ServeDelete == Idle /\ \E req \in RoomRequests("/control/delete") : Handle(req)
ServeLiveStat == Idle /\ \E req \in RoomRequests("/stats/livestat") : Handle(req)
ServeLiveStatics == Idle /\ \E req \in StatsRequests : Handle(req)

\* The response is on the wire and the connection takes its next request.
Release ==
    /\ inflight[1].pc = "done"
    /\ inflight' = [inflight EXCEPT ![1] = IdleHandler]
    /\ UNCHANGED <<session, relays, RoomKeys, streams, handler, jwtSecret, crashed>>

Next ==
    \/ ServePush
    \/ ServePull
    \/ ServeReset
    \/ ServeGet
    \/ ServeDelete
    \/ ServeLiveStat
    \/ ServeLiveStatics
    \/ Release

Spec == Init /\ [][Next]_vars

(***************************************************************************)
(* Back-to-back service of the relay routes: the handler's record of the   *)
(* previous request is still in place when the next request is served, so  *)
(* a step relates two consecutive requests.                                *)
(***************************************************************************)
InitRelay ==
    /\ session = EmptyMap
    /\ relays = <<>>
    /\ RoomKeys = [k \in {} |-> ""]
    /\ streams = [k \in {} |-> 0]
    /\ handler \in ServerHandlers
    /\ jwtSecret = ""
    /\ inflight = [h \in Handlers |-> IdleHandler]
    /\ crashed = FALSE

\* Requests with the right key, for two stream names on the push route.
KeyedRequests(route, names) ==
    {req \in RelayRequests({route}, names) : req.authorization = apiKey}

PushNext == \E req \in KeyedRequests("/control/push", TwoNames) : Handle(req)
PullNext == \E req \in KeyedRequests("/control/pull", Names) : Handle(req)

NextSeq ==
    \/ PushNext
    \/ PullNext

SpecSeq == InitRelay /\ [][NextSeq]_vars

(***************************************************************************)
(* Concurrent service: net/http runs each request's handler in a goroutine *)
(* of its own; the handlers share Server.session with no lock.             *)
(***************************************************************************)
\* Start and stop requests with every form value present and the right key.
ConcRequests ==
    {req \in KeyedRequests("/control/push", Names) \cup KeyedRequests("/control/pull", Names) :
        req.parseOk /\ ~ParamMissing(req)}

\* The handler is inside the runtime's code for a map read or a map write.
InMapRead(h) == inflight[h].pc = "in_lookup"
InMapWrite(h) == inflight[h].pc \in {"in_insert", "in_delete"}
InMapAccess(h) == InMapRead(h) \/ InMapWrite(h)

InFlight(h) == inflight[h].pc \notin {"idle", "done"}

\* A request arrives and its handler runs to its first access to shared state.
Accept(h) ==
    /\ ~crashed
    /\ ~InFlight(h)
    /\ \E req \in ConcRequests : \E r \in {Step(Shared, NewHandler(req))} :
          LET others == {o \in Handlers \ {h} : InFlight(o)}
          IN  /\ Len(r.g.relays) <= MaxRelays
              /\ Commit(r.g)
              /\ inflight' = [o \in Handlers |->
                                IF o = h THEN [r.l EXCEPT !.overlap = others]
                                ELSE IF o \in others
                                     THEN [inflight[o] EXCEPT !.overlap = @ \cup {h}]
                                     ELSE inflight[o]]

\* The handler takes its next step.
Proceed(h) ==
    /\ ~crashed
    /\ InFlight(h)
    /\ \E r \in {Step(Shared, inflight[h])} :
           /\ Commit(r.g)
           /\ inflight' = [inflight EXCEPT ![h] = r.l]

\* Two goroutines are inside the map at once and one of them writes: the runtime
\* may detect it ("fatal error: concurrent map writes") and end the process.
MapFault ==
    /\ ~crashed
    /\ \E h1 \in Handlers, h2 \in Handlers :
          h1 # h2 /\ InMapWrite(h1) /\ InMapAccess(h2)
    /\ crashed' = TRUE
    /\ UNCHANGED <<session, relays, RoomKeys, streams, handler, jwtSecret, inflight>>

NextConc ==
    \/ \E h \in Handlers : Accept(h)
    \/ \E h \in Handlers : Proceed(h)
    \/ MapFault

SpecConc == InitRelay /\ [][NextConc]_vars

(***************************************************************************)
(* Service of the stats routes over a stream registry that nothing changes *)
(* while a handler runs: one request at a time, the right key, no token    *)
(* gate.                                                                   *)
(***************************************************************************)
ReaderKinds == {"nil", "VirReader", "StaticPush"}
WriterSets ==
    {<<>>, <<"VirWriter">>, <<"VirWriter", "FLVWriter">>, <<"nil", "VirWriter", "VirWriter">>}
StatKeys == {StreamKey("r1"), StreamKey("r2")}

\* The registries of the engine: any of the streams under none, one or both keys.
StatsRegistries ==
    UNION {[ks -> {Stream(rd, ws) : rd \in ReaderKinds, ws \in WriterSets}] :
             ks \in SUBSET StatKeys}

InitStats ==
    /\ session = EmptyMap
    /\ relays = <<>>
    /\ RoomKeys = [k \in {} |-> ""]
    /\ streams \in StatsRegistries
    /\ handler \in ServerHandlers
    /\ jwtSecret = ""
    /\ inflight = [h \in Handlers |-> IdleHandler]
    /\ crashed = FALSE

StatRooms == {"", "r1", "r2", "r3"}

\* A form that fails to parse may still carry the room (ParseForm reports the first
\* malformed pair and keeps the others).
LiveStatRequests ==
    {Request("/stats/livestat", apiKey, FALSE, p, "", "", "", "", rm, FALSE, FALSE) :
        p \in BOOLEAN, rm \in StatRooms}

LiveStaticsRequests ==
    {Request("/stats/livestats", apiKey, FALSE, p, "", "", "", "", "", FALSE, FALSE) :
        p \in BOOLEAN}

StatAll == \E req \in LiveStaticsRequests : Handle(req)
StatOne == \E req \in LiveStatRequests : Handle(req)

NextStats ==
    \/ StatAll
    \/ StatOne

SpecStats == InitStats /\ [][NextStats]_vars

(***************************************************************************)
(* GetLiveStatics access by access, while the engine goes on changing the  *)
(* streams it walks: a publisher leaves or is replaced, a subscriber's     *)
(* writer goes away.  The handler of /stats/livestats keeps, besides its   *)
(* response, the keys a Range has still to pass to its callback (todo),    *)
(* the stream of the current callback (cur), the position in its writer    *)
(* set (wi) and msgs (publishers, players).                                *)
(***************************************************************************)
NewSnapshot(req) ==
    [pc |-> "serve", req |-> req, status |-> 0, data |-> Nil, sent |-> 0,
     todo |-> {}, cur |-> "", wi |-> 0, publishers |-> <<>>, players |-> <<>>,
     panicked |-> FALSE]

IdleSnapshot == [NewSnapshot(NoRequest) EXCEPT !.pc = "idle"]

\* A failed type assertion panics: the deferred SendJson writes res as it stands
\* (status 200, no data) and the panic goes on to net/http's recover.
Panic(l) == SendJson([l EXCEPT !.panicked = TRUE])

\* The route's closure up to the first Range.
GetLiveStaticsEntry(g, l0) ==
    LET l == [l0 EXCEPT !.status = 200, !.data = Nil]
    IN  IF checkAuth(apiKey, l) THEN Ret(g, Unauthorized(l))
        ELSE IF g.handler = "nilRtmpStream"
        THEN Ret(g, SendJson([l EXCEPT !.status = 500,
                                       !.data = StrData("Get rtmp stream information error")]))
        ELSE Ret(g, [l EXCEPT !.todo = DOMAIN g.streams, !.pc = "pub_next"])

\* One access of GetLiveStatics from its position l.pc.
GetLiveStaticsStep(g, l) ==
    CASE l.pc = "pub_next" ->
            IF l.todo = {}
            THEN Ret(g, [l EXCEPT !.todo = DOMAIN g.streams, !.pc = "ply_next"])
            ELSE LET k == CHOOSE x \in l.todo : TRUE
                 IN  Ret(g, [l EXCEPT !.cur = k, !.todo = @ \ {k}, !.pc = "pub_nil"])
      [] l.pc = "pub_nil" ->
            \* s.GetReader() != nil
            IF g.streams[l.cur].reader = "nil"
            THEN Ret(g, [l EXCEPT !.pc = "pub_next"])
            ELSE Ret(g, [l EXCEPT !.pc = "pub_type"])
      [] l.pc = "pub_type" ->
            \* switch s.GetReader().(type)
            IF g.streams[l.cur].reader = "VirReader"
            THEN Ret(g, [l EXCEPT !.pc = "pub_read"])
            ELSE Ret(g, [l EXCEPT !.pc = "pub_next"])
      [] l.pc = "pub_read" ->
            \* v := s.GetReader().(*rtmp.VirReader)
            IF g.streams[l.cur].reader = "VirReader"
            THEN Ret(g, [l EXCEPT !.publishers = Append(@, ReaderStat(l.cur)),
                                  !.pc = "pub_next"])
            ELSE Ret(g, Panic(l))
      [] l.pc = "ply_next" ->
            IF l.todo = {}
            THEN Ret(g, SendJson([l EXCEPT !.data = StreamsData(l.publishers, l.players)]))
            ELSE LET k == CHOOSE x \in l.todo : TRUE
                 IN  Ret(g, [l EXCEPT !.cur = k, !.todo = @ \ {k}, !.wi = 1,
                                      !.pc = "ws_next"])
      [] l.pc = "ws_next" ->
            IF l.wi > Len(g.streams[l.cur].ws)
            THEN Ret(g, [l EXCEPT !.pc = "ply_next"])
            ELSE Ret(g, [l EXCEPT !.pc = "ply_nil"])
      [] l.pc = "ply_nil" ->
            \* pw.GetWriter() != nil
            IF g.streams[l.cur].ws[l.wi] = "nil"
            THEN Ret(g, [l EXCEPT !.wi = @ + 1, !.pc = "ws_next"])
            ELSE Ret(g, [l EXCEPT !.pc = "ply_type"])
      [] l.pc = "ply_type" ->
            \* switch pw.GetWriter().(type)
            IF g.streams[l.cur].ws[l.wi] = "VirWriter"
            THEN Ret(g, [l EXCEPT !.pc = "ply_read"])
            ELSE Ret(g, [l EXCEPT !.wi = @ + 1, !.pc = "ws_next"])
      [] l.pc = "ply_read" ->
            \* v := pw.GetWriter().(*rtmp.VirWriter)
            IF g.streams[l.cur].ws[l.wi] = "VirWriter"
            THEN Ret(g, [l EXCEPT !.players =
                                      Append(@, [ReaderStat(l.cur) EXCEPT !.StreamId = l.wi]),
                                  !.wi = @ + 1, !.pc = "ws_next"])
            ELSE Ret(g, Panic(l))

WriterKinds == {"nil", "VirWriter", "FLVWriter"}

InitSnap ==
    /\ session = EmptyMap
    /\ relays = <<>>
    /\ RoomKeys = [k \in {} |-> ""]
    /\ streams \in StreamRegistries
    /\ handler \in ServerHandlers
    /\ jwtSecret = ""
    /\ inflight = [h \in Handlers |-> IdleSnapshot]
    /\ crashed = FALSE

\* A request to /stats/livestats arrives and its handler runs up to the first Range.
SnapAccept ==
    /\ ~InFlight(1)
    /\ \E req \in LiveStaticsRequests : \E r \in {GetLiveStaticsEntry(Shared, NewSnapshot(req))} :
          inflight' = [inflight EXCEPT ![1] = r.l]
    /\ UNCHANGED <<session, relays, RoomKeys, streams, handler, jwtSecret, crashed>>

\* The handler makes its next access.
SnapProceed ==
    /\ InFlight(1)
    /\ \E r \in {GetLiveStaticsStep(Shared, inflight[1])} :
          inflight' = [inflight EXCEPT ![1] = r.l]
    /\ UNCHANGED <<session, relays, RoomKeys, streams, handler, jwtSecret, crashed>>

\* The engine, in its own goroutines: a stream's reader is removed or replaced.
ReaderChange ==
    /\ \E k \in DOMAIN streams : \E rd \in ReaderKinds \ {streams[k].reader} :
          streams' = [streams EXCEPT ![k].reader = rd]
    /\ UNCHANGED <<session, relays, RoomKeys, handler, jwtSecret, inflight, crashed>>

\* The engine: a subscriber's writer is removed or replaced.
WriterChange ==
    /\ \E k \in DOMAIN streams : \E i \in DOMAIN streams[k].ws :
          \E w \in WriterKinds \ {streams[k].ws[i]} :
             streams' = [streams EXCEPT ![k].ws[i] = w]
    /\ UNCHANGED <<session, relays, RoomKeys, handler, jwtSecret, inflight, crashed>>

NextSnap ==
    \/ SnapAccept
    \/ SnapProceed
    \/ ReaderChange
    \/ WriterChange

SpecSnap == InitSnap /\ [][NextSnap]_vars

(***************************************************************************)
(* Back-to-back service of the relay routes for endpoints whose app and    *)
(* name differ in casing and in where a slash sits.                        *)
(***************************************************************************)
KeyApps == {"live", "Live", "live/"}
KeyNames == {"n1", "/n1"}

EndpointRequests(route) ==
    {Request(route, apiKey, FALSE, TRUE, o, a, n, "rtmp://h/live/n1", "", FALSE, FALSE) :
        o \in Opers, a \in KeyApps, n \in KeyNames}

PushEndpoint == \E req \in EndpointRequests("/control/push") : Handle(req)
PullEndpoint == \E req \in EndpointRequests("/control/pull") : Handle(req)

NextKeys ==
    \/ PushEndpoint
    \/ PullEndpoint

SpecKeys == InitRelay /\ [][NextKeys]_vars

(***************************************************************************)
(* Back-to-back service of the relay routes for one endpoint and every     *)
(* kind of oper value: the two the usage names, none, and others.          *)
(***************************************************************************)
AnyOpers == {"start", "stop", "", "pause", "Stop"}

OperRequests(route) ==
    UNION {{Request(route, apiKey, FALSE, TRUE, o, "live", "n1", "rtmp://h/live/n1", "", e, FALSE) :
              e \in IF o = "stop" THEN {FALSE} ELSE BOOLEAN} :
           o \in AnyOpers}

PushOper == \E req \in OperRequests("/control/push") : Handle(req)
PullOper == \E req \in OperRequests("/control/pull") : Handle(req)

NextOper ==
    \/ PushOper
    \/ PullOper

SpecOper == InitRelay /\ [][NextOper]_vars

(***************************************************************************)
(* Vocabulary of the properties.                                           *)
(***************************************************************************)
RelayIds == 1..Len(relays)

\* The workers created for session key k that were started and not stopped.
Running(k) == {i \in RelayIds : relays[i].key = k /\ relays[i].startflag}

StartConfirmation(url) == StrData("<h1>push url start " \o url \o " ok</h1></br>")
StopConfirmation(url) == StrData("<h1>push url stop " \o url \o " ok</h1></br>")
PushNotFound(key) ==
    StrData("<h1>session key[" \o key \o "] not exist, please check it again.</h1>")
StartError == StrData("push error=start failed")

\* In Spec: this step served a request (the handler ran from its start to its return).
Served == inflight[1].pc = "idle" /\ inflight'[1].pc = "done"

\* The handler's record says its request passed the gates and the form checks of
\* handlePush/handlePull (keyString is assigned only after them).
ReachedRegistry(l) ==
    l.pc = "done" /\ l.req.route \in ControlRoutes /\ l.keyString # ""

\* Two handlers whose current requests were in flight at the same time.
Overlapped(h1, h2) ==
    h1 # h2 /\ h2 \in inflight[h1].overlap /\ h1 \in inflight[h2].overlap

\* Handler h has returned from a start on key k whose worker started.
StartReturned(h, k) ==
    /\ ReachedRegistry(inflight[h])
    /\ inflight[h].keyString = k
    /\ inflight[h].req.oper # "stop"
    /\ ~inflight[h].req.startErr

\* Handler h has returned from a stop on key k.
StopReturned(h, k) ==
    /\ ReachedRegistry(inflight[h])
    /\ inflight[h].keyString = k
    /\ inflight[h].req.oper = "stop"

SessionKeys == {PushKey("live", "n1"), PullKey("live", "n1")}

(***************************************************************************)
(* C1.  After any sequence of push/pull start and stop requests, every     *)
(* worker that was started and not stopped is the one the registry holds   *)
(* for its key: at most one running worker per key, none left without an   *)
(* entry by a later start.                                                 *)
(***************************************************************************)
C1_RunningWorkerIsRegistered ==
    \A i \in RelayIds :
        relays[i].startflag =>
            /\ relays[i].key \in DOMAIN session
            /\ session[relays[i].key] = i

(***************************************************************************)
(* C2.  When two starts for the same key ran concurrently, both workers    *)
(* started and both handlers have returned, the key has one registry entry *)
(* and exactly one running worker.                                         *)
(***************************************************************************)
C2_ConcurrentStartsLeaveOneWorker ==
    \A h1 \in Handlers, h2 \in Handlers, k \in SessionKeys :
        (Overlapped(h1, h2) /\ StartReturned(h1, k) /\ StartReturned(h2, k)) =>
            /\ k \in DOMAIN session
            /\ Cardinality(Running(k)) = 1

(***************************************************************************)
(* C3.  When a stop and a start for the same key ran concurrently and both *)
(* handlers have returned, the key is in the registry if and only if a     *)
(* running worker exists for it.                                           *)
(***************************************************************************)
C3_ConcurrentStopStartNoLostUpdate ==
    \A h1 \in Handlers, h2 \in Handlers, k \in SessionKeys :
        (Overlapped(h1, h2) /\ StartReturned(h1, k) /\ StopReturned(h2, k)) =>
            (k \in DOMAIN session <=> Running(k) # {})

(***************************************************************************)
(* C4.  A successful push start followed by a stop on the same key leaves  *)
(* the registry without the key and the worker stopped; a stop that        *)
(* follows a successful stop on the same key returns the not-found result, *)
(* not the confirmation, and calls no worker's Stop.                       *)
(***************************************************************************)
C4_PushStartStopStop ==
    [][LET prev == inflight[1]
           cur == inflight'[1]
       IN  (/\ ReachedRegistry(prev) /\ prev.req.route = "/control/push"
            /\ ReachedRegistry(cur) /\ cur.req.route = "/control/push"
            /\ cur.req.oper = "stop"
            /\ cur.keyString = prev.keyString)
           =>
           /\ (prev.req.oper # "stop" /\ prev.data = StartConfirmation(prev.req.url)) =>
                 /\ cur.keyString \notin DOMAIN session'
                 /\ ~relays'[prev.relay].startflag
                 /\ relays'[prev.relay].stops = 1
                 /\ cur.data = StopConfirmation(cur.req.url)
           /\ (prev.req.oper = "stop" /\ prev.data = StopConfirmation(prev.req.url)) =>
                 /\ cur.data = PushNotFound(cur.keyString)
                 /\ cur.data # StopConfirmation(cur.req.url)
                 /\ relays' = relays
                 /\ cur.keyString \notin DOMAIN session'
      ]_vars

\* A second stop has answered not-found for a key whose worker was started and
\* stopped once.
C4_Witness ==
    /\ ReachedRegistry(inflight[1])
    /\ inflight[1].req.route = "/control/push"
    /\ inflight[1].req.oper = "stop"
    /\ inflight[1].data = PushNotFound(inflight[1].keyString)
    /\ \E i \in RelayIds :
          relays[i].key = inflight[1].keyString /\ relays[i].stops = 1
          /\ ~relays[i].startflag

(***************************************************************************)
(* C5.  A start for a key that already has a registry entry leaves the     *)
(* entry with the same handle, starts no second worker, and is answered    *)
(* with a success response.                                                *)
(***************************************************************************)
C5_DuplicateStartIsNoOp ==
    [][(/\ Served
        /\ ReachedRegistry(inflight'[1])
        /\ inflight'[1].req.oper # "stop"
        /\ inflight'[1].keyString \in DOMAIN session)
       =>
       /\ session' = session
       /\ relays' = relays
       /\ inflight'[1].status = 200
      ]_vars

(***************************************************************************)
(* C6.  When the worker a start request created fails to start, the        *)
(* request returns the error message and the whole registry is as before.  *)
(***************************************************************************)
C6_StartFailureInsertsNothing ==
    [][(/\ Served
        /\ Len(relays') = Len(relays) + 1
        /\ inflight'[1].req.startErr)
       =>
       /\ session' = session
       /\ inflight'[1].data = StartError
      ]_vars

\* A start has failed while the registry held a session.
C6_Witness ==
    /\ ReachedRegistry(inflight[1])
    /\ inflight[1].req.startErr
    /\ inflight[1].relay = Len(relays)
    /\ inflight[1].data = StartError
    /\ DOMAIN session # {}

(***************************************************************************)
(* C7.  As claimed: on every control and stats route a request whose       *)
(* authorization header differs from the shared secret is answered 401     *)
(* "Unauthorized" and changes nothing.                                     *)
(***************************************************************************)
C7_WrongKeyIs401 ==
    [][(Served /\ inflight'[1].req.authorization # apiKey)
       =>
       /\ inflight'[1].status = 401
       /\ inflight'[1].data = StrData("Unauthorized")
       /\ UNCHANGED <<session, relays, RoomKeys, streams>>
      ]_vars

(***************************************************************************)
(* C7, amended.  Such a request never reaches its handler body (registry,  *)
(* workers, room keys and streams are unchanged); it is answered 401       *)
(* "Unauthorized", except that with a signing secret configured and a      *)
(* token that fails validation the token gate answers 403 first.           *)
(***************************************************************************)
C7_WrongKeyNeverServed ==
    [][(Served /\ inflight'[1].req.authorization # apiKey)
       =>
       /\ UNCHANGED <<session, relays, RoomKeys, streams>>
       /\ inflight'[1].sent = 1
       /\ IF isJWT(jwtSecret) /\ ~inflight'[1].req.tokenOk
          THEN inflight'[1].status = 403
          ELSE /\ inflight'[1].status = 401
               /\ inflight'[1].data = StrData("Unauthorized")
      ]_vars

\* A start with every form value present was answered 401 while the registry
\* held a session.
C7_Witness ==
    /\ inflight[1].pc = "done"
    /\ inflight[1].req.authorization # apiKey
    /\ inflight[1].req.route = "/control/push"
    /\ inflight[1].req.oper = "start"
    /\ ~ParamMissing(inflight[1].req)
    /\ inflight[1].status = 401
    /\ DOMAIN session # {}

(***************************************************************************)
(* C8.  Registry accesses are mutually exclusive: no two handlers are      *)
(* inside a map access at once when one of them writes, and no handler is  *)
(* inside a map access while another is between its lookup and its delete. *)
(***************************************************************************)
C8_RegistryMutualExclusion ==
    \A h1 \in Handlers, h2 \in Handlers :
        h1 # h2 =>
            /\ ~(InMapWrite(h1) /\ InMapAccess(h2))
            /\ ~(inflight[h1].pc \in {"stop", "delete", "in_delete"} /\ InMapAccess(h2))

(***************************************************************************)
(* C9.  A stop for a key that is not in the registry is answered with      *)
(* status 404, calls no worker's Stop and leaves the registry unchanged.   *)
(***************************************************************************)
C9_StopUnknownKeyIs404 ==
    [][(/\ Served
        /\ ReachedRegistry(inflight'[1])
        /\ inflight'[1].req.oper = "stop"
        /\ inflight'[1].keyString \notin DOMAIN session)
       =>
       /\ inflight'[1].status = 404
       /\ relays' = relays
       /\ session' = session
      ]_vars

(***************************************************************************)
(* C10.  A request that passed the gates with a required parameter missing *)
(* or empty is answered with a 4xx status and a usage message, and changes *)
(* nothing.                                                                *)
(***************************************************************************)
MissingRequired(req) ==
    \/ req.route \in ControlRoutes /\ ParamMissing(req)
    \/ req.route \in RoomRoutes /\ req.room = ""

UsageMessages ==
    {StrData(PushUsage), StrData(PullUsage), StrData(ParamError)}
    \cup {StrData(RoomUsage(rt)) : rt \in RoomRoutes}

C10_MissingParameterIs400 ==
    [][(/\ Served
        /\ Admitted(inflight'[1].req.authorization, inflight'[1].req.tokenOk)
        /\ inflight'[1].req.parseOk
        /\ MissingRequired(inflight'[1].req))
       =>
       /\ inflight'[1].status \in 400..499
       /\ inflight'[1].data \in UsageMessages
       /\ UNCHANGED <<session, relays, RoomKeys, streams>>
      ]_vars

(***************************************************************************)
(* C11.  Every request gets exactly one response: a handler never writes   *)
(* twice, a handler that returned has written once, and no request is left *)
(* in flight in a process that can no longer answer it.                    *)
(***************************************************************************)
C11_ExactlyOneResponse ==
    \A h \in Handlers :
        /\ inflight[h].sent <= 1
        /\ inflight[h].pc = "done" => inflight[h].sent = 1
        /\ InFlight(h) => ~crashed

(***************************************************************************)
(* C12.  Over a registry that does not change during the call, the         *)
(* snapshot of all streams is answered 200 with one publishers entry for   *)
(* each stream whose reader is the virtual reader and one players entry    *)
(* for each attached writer that is the virtual writer; a stream with no   *)
(* reader, and a reader or writer of another variant, gives no entry and   *)
(* no error.                                                               *)
(***************************************************************************)
EntriesOf(list, k) == {i \in DOMAIN list : list[i].Key = k}

VirtualWriters(k) == {i \in DOMAIN streams[k].ws : streams[k].ws[i] = "VirWriter"}

C12_SnapshotAllProjection ==
    LET l == inflight[1]
    IN  (l.pc = "done" /\ l.req.route = "/stats/livestats") =>
            /\ l.status = 200
            /\ l.data.t = "streams"
            /\ \A i \in DOMAIN l.data.publishers : l.data.publishers[i].Key \in DOMAIN streams
            /\ \A i \in DOMAIN l.data.players : l.data.players[i].Key \in DOMAIN streams
            /\ \A k \in DOMAIN streams :
                  /\ Cardinality(EntriesOf(l.data.publishers, k)) =
                        (IF streams[k].reader = "VirReader" THEN 1 ELSE 0)
                  /\ Cardinality(EntriesOf(l.data.players, k)) = Cardinality(VirtualWriters(k))
                  /\ {l.data.players[i].StreamId : i \in EntriesOf(l.data.players, k)}
                        = VirtualWriters(k)

\* A snapshot was taken of two streams, one with a virtual reader and one with a
\* reader of another variant, with virtual and other writers attached.
C12_Witness ==
    /\ inflight[1].pc = "done"
    /\ inflight[1].req.route = "/stats/livestats"
    /\ DOMAIN streams = StatKeys
    /\ streams[StreamKey("r1")].reader = "VirReader"
    /\ streams[StreamKey("r2")].reader = "StaticPush"
    /\ streams[StreamKey("r2")].ws = <<"nil", "VirWriter", "VirWriter">>
    /\ streams[StreamKey("r1")].ws = <<"VirWriter", "FLVWriter">>
    /\ Len(inflight[1].data.publishers) = 1
    /\ Len(inflight[1].data.players) = 3

(***************************************************************************)
(* C13.  The snapshot of all streams never panics while the engine changes *)
(* the streams under it: when a reader or writer is removed or replaced    *)
(* between two of the snapshot's accesses to it, the snapshot still        *)
(* returns normally, with its lists as the response.                       *)
(***************************************************************************)
C13_SnapshotNeverPanics ==
    /\ ~inflight[1].panicked
    /\ (inflight[1].pc = "done" /\ inflight[1].req.route = "/stats/livestats") =>
          (inflight[1].status = 200 /\ inflight[1].data.t = "streams")

(***************************************************************************)
(* C14.  The snapshot of one room looks the stream up under "live/<room>"  *)
(* and is answered 404 when there is no such stream, 500 when the stream   *)
(* has no reader, 500 when its reader is not the virtual reader, and       *)
(* otherwise 200 with one publisher-shaped entry whose key is              *)
(* "live/<room>"; there is no other case and no players list.              *)
(***************************************************************************)
C14_SnapshotOneFourCases ==
    LET l == inflight[1]
        key == "live/" \o l.req.room
    IN  (l.pc = "done" /\ l.req.route = "/stats/livestat") =>
            IF key \notin DOMAIN streams THEN l.status = 404
            ELSE IF streams[key].reader = "nil" THEN l.status = 500
            ELSE IF streams[key].reader # "VirReader" THEN l.status = 500
            ELSE /\ l.status = 200
                 /\ l.data.t = "stream"
                 /\ l.data.v.Key = key

(***************************************************************************)
(* C15.  With a signing secret configured a request reaches the body of    *)
(* its handler only if its token validated and its authorization header is *)
(* the shared secret; a token failure is answered 403 before the header is *)
(* looked at.  With no signing secret the token gate is not applied and    *)
(* the right header alone lets the request through.                        *)
(***************************************************************************)
\* The response is not one of the two gates' responses.
BodyReached(l) ==
    /\ ~(l.status = 403 /\ l.data = StrData("token error"))
    /\ ~(l.status = 401 /\ l.data = StrData("Unauthorized"))

C15_GatesAreCumulative ==
    [][Served =>
         LET l == inflight'[1]
             secret == jwtSecret # ""
             keyOk == l.req.authorization = apiKey
         IN  /\ (secret /\ ~l.req.tokenOk) =>
                   /\ l.status = 403
                   /\ l.data = StrData("token error")
                   /\ UNCHANGED <<session, relays, RoomKeys, streams>>
             /\ (secret /\ l.req.tokenOk /\ ~keyOk) =>
                   /\ l.status = 401
                   /\ UNCHANGED <<session, relays, RoomKeys, streams>>
             /\ BodyReached(l) => (keyOk /\ (secret => l.req.tokenOk))
             /\ (secret /\ l.req.tokenOk /\ keyOk) => BodyReached(l)
             /\ (~secret /\ keyOk) => BodyReached(l)
      ]_vars

\* With a signing secret configured, a push start with a valid token and the right
\* header has been served by its handler.
C15_Witness ==
    /\ jwtSecret # ""
    /\ inflight[1].pc = "done"
    /\ inflight[1].req.tokenOk
    /\ inflight[1].req.authorization = apiKey
    /\ inflight[1].req.route = "/control/push"
    /\ inflight[1].data = StartConfirmation(inflight[1].req.url)
    /\ inflight[1].keyString \in DOMAIN session

(***************************************************************************)
(* C16.  The registry entry of a session key changes only in the service   *)
(* of a push or pull request addressed to that key (direction, app and     *)
(* name) that passed the gates with its form complete: stats requests,     *)
(* room-key requests, rejected requests and requests for any other key,    *)
(* the same app and name in the other direction included, leave it as it   *)
(* is.                                                                     *)
(***************************************************************************)
\* The key a request to a relay route addresses: "<direction>:<app>/<name>".
AddressedKey(req) ==
    (IF req.route = "/control/push" THEN "push:" ELSE "pull:")
        \o req.app \o "/" \o req.name

EntryChanged(k) ==
    \/ (k \in DOMAIN session) # (k \in DOMAIN session')
    \/ k \in DOMAIN session /\ k \in DOMAIN session' /\ session[k] # session'[k]

C16_EntryChangesOnlyByItsRequests ==
    [][\A k \in DOMAIN session \cup DOMAIN session' :
          EntryChanged(k) =>
              LET req == inflight'[1].req
              IN  /\ Served
                  /\ req.route \in ControlRoutes
                  /\ Admitted(req.authorization, req.tokenOk)
                  /\ req.parseOk /\ ~ParamMissing(req)
                  /\ AddressedKey(req) = k
      ]_vars

\* A pull start for live/n1 has been served while the push session of the same app
\* and name was registered, and that entry is still there.
C16_Witness ==
    /\ inflight[1].pc = "done"
    /\ inflight[1].req.route = "/control/pull"
    /\ inflight[1].data = StartConfirmation(inflight[1].req.url)
    /\ DOMAIN session = {"push:live/n1", "pull:live/n1"}
    /\ session["push:live/n1"] = 1
    /\ session["pull:live/n1"] = 2

(***************************************************************************)
(* C17.  The pull handler follows the push handler: served on the registry *)
(* with the directions swapped, the pull request with the same form and    *)
(* the same worker outcome makes the same registry transition, starts and  *)
(* stops the same workers, and answers with the same status.               *)
(***************************************************************************)
Endpoints == {<<a, n>> : a \in Apps, n \in TwoNames}

\* The key of the same app and name in the other direction.
MirrorKey(k) ==
    IF \E p \in Endpoints : k = "push:" \o p[1] \o "/" \o p[2]
    THEN LET p == CHOOSE q \in Endpoints : k = "push:" \o q[1] \o "/" \o q[2]
         IN  "pull:" \o p[1] \o "/" \o p[2]
    ELSE LET p == CHOOSE q \in Endpoints : k = "pull:" \o q[1] \o "/" \o q[2]
         IN  "push:" \o p[1] \o "/" \o p[2]

MirrorMap(m) == [k \in {MirrorKey(x) : x \in DOMAIN m} |-> m[MirrorKey(k)]]

WorkerStates(rs) == [i \in DOMAIN rs |-> <<rs[i].startflag, rs[i].stops>>]

C17_PullMirrorsPush ==
    [][inflight'[1].req.route = "/control/push" =>
         LET req == inflight'[1].req
             pull == RunToEnd(Ret([Shared EXCEPT !.session = MirrorMap(session)],
                                  NewHandler([req EXCEPT !.route = "/control/pull"])))
         IN  /\ MirrorMap(pull.g.session) = session'
             /\ WorkerStates(pull.g.relays) = WorkerStates(relays')
             /\ pull.l.status = inflight'[1].status
      ]_vars

(***************************************************************************)
(* C18.  As claimed: session keys are injective on (app, name) within a    *)
(* direction, so a stop for one endpoint never hits the entry of another:  *)
(* after a successful start for one (app, name), a stop for any (app,      *)
(* name) that differs from it as a pair of strings leaves the started      *)
(* entry in place and its worker running.                                  *)
(***************************************************************************)
\* The previous request was a start that registered its worker and this one is a stop.
StopFollowsStart ==
    /\ ReachedRegistry(inflight[1])
    /\ inflight[1].req.oper # "stop"
    /\ inflight[1].data = StartConfirmation(inflight[1].req.url)
    /\ ReachedRegistry(inflight'[1])
    /\ inflight'[1].req.oper = "stop"

\* The entry the previous request's start made is as it was, its worker running.
StartedEntryKept ==
    /\ inflight[1].keyString \in DOMAIN session'
    /\ session'[inflight[1].keyString] = inflight[1].relay
    /\ relays'[inflight[1].relay].startflag

C18_KeysAreInjective ==
    [][(/\ StopFollowsStart
        /\ inflight'[1].req.route = inflight[1].req.route
        /\ <<inflight'[1].req.app, inflight'[1].req.name>>
              # <<inflight[1].req.app, inflight[1].req.name>>)
       => StartedEntryKept
      ]_vars

(***************************************************************************)
(* C18, amended.  A stop hits the entry a start made exactly when it is    *)
(* for the same direction and its app, "/" and name concatenate to the     *)
(* same string as the start's: endpoints that differ in casing, in a       *)
(* trailing slash or in direction keep their entries apart, while a        *)
(* trailing slash on app and a leading slash on name give one key.         *)
(***************************************************************************)
C18_KeysDistinctUpToConcatenation ==
    [][StopFollowsStart =>
         IF /\ inflight'[1].req.route = inflight[1].req.route
            /\ inflight'[1].req.app \o "/" \o inflight'[1].req.name
                  = inflight[1].req.app \o "/" \o inflight[1].req.name
         THEN /\ inflight[1].keyString \notin DOMAIN session'
              /\ ~relays'[inflight[1].relay].startflag
              /\ inflight'[1].data = StopConfirmation(inflight'[1].req.url)
         ELSE StartedEntryKept
      ]_vars

\* A stop for app "Live" was answered not-found while the session of app "live"
\* with the same name stayed registered and running.
C18_Witness ==
    /\ ReachedRegistry(inflight[1])
    /\ inflight[1].req.route = "/control/push"
    /\ inflight[1].req.oper = "stop"
    /\ inflight[1].req.app = "Live"
    /\ inflight[1].req.name = "n1"
    /\ inflight[1].data = PushNotFound("push:Live/n1")
    /\ "push:live/n1" \in DOMAIN session
    /\ relays[session["push:live/n1"]].startflag

(***************************************************************************)
(* C19.  The worker a request creates has the endpoints of its direction:  *)
(* with the local URL rtmp://127.0.0.1<rtmpAddr>/<app>/<name>, a push      *)
(* worker plays the local URL and publishes to the request's url, and a    *)
(* pull worker plays the request's url and publishes to the local URL.     *)
(***************************************************************************)
C19_RelayEndpoints ==
    [][Len(relays') = Len(relays) + 1 =>
         LET req == inflight'[1].req
             worker == relays'[Len(relays')]
             local == "rtmp://127.0.0.1" \o rtmpAddr \o "/" \o req.app \o "/" \o req.name
         IN  IF req.route = "/control/push"
             THEN worker.PlayUrl = local /\ worker.PublishUrl = req.url
             ELSE worker.PlayUrl = req.url /\ worker.PublishUrl = local
      ]_vars

\* A push worker and a pull worker for live/n1 have been created and started.
C19_Witness ==
    /\ Len(relays) = 2
    /\ relays[1].key = "push:live/n1"
    /\ relays[1].PlayUrl = "rtmp://127.0.0.1:1935/live/n1"
    /\ relays[1].PublishUrl = "rtmp://h/live/n1"
    /\ relays[2].key = "pull:live/n1"
    /\ relays[2].PlayUrl = "rtmp://h/live/n1"
    /\ relays[2].PublishUrl = "rtmp://127.0.0.1:1935/live/n1"
    /\ relays[1].startflag /\ relays[2].startflag

(***************************************************************************)
(* C20.  With app, name and url present, only the oper value "stop" takes  *)
(* the stop path, which creates no worker; every other value ("start",     *)
(* none, any other string) takes the start path: a worker is created for   *)
(* the request's key and started, and registered when the start succeeds.  *)
(***************************************************************************)
PullNotFound(key) == StrData("session key[" \o key \o "] not exist, please check it again.")

C20_OnlyStopStops ==
    [][ReachedRegistry(inflight'[1]) =>
         LET cur == inflight'[1]
             new == Len(relays')
         IN  IF cur.req.oper = "stop"
             THEN /\ Len(relays') = Len(relays)
                  /\ cur.keyString \notin DOMAIN session'
                  /\ cur.data \in {StopConfirmation(cur.req.url),
                                    PushNotFound(cur.keyString), PullNotFound(cur.keyString)}
             ELSE /\ Len(relays') = Len(relays) + 1
                  /\ relays'[new].key = AddressedKey(cur.req)
                  /\ IF cur.req.startErr
                     THEN /\ ~relays'[new].startflag
                          /\ session' = session
                          /\ cur.data = StartError
                     ELSE /\ relays'[new].startflag
                          /\ AddressedKey(cur.req) \in DOMAIN session'
                          /\ session'[AddressedKey(cur.req)] = new
                          /\ cur.data = StartConfirmation(cur.req.url)
      ]_vars

\* A request with oper "Stop" has started and registered a worker while another
\* worker was running.
C20_Witness ==
    /\ ReachedRegistry(inflight[1])
    /\ inflight[1].req.oper = "Stop"
    /\ inflight[1].data = StartConfirmation(inflight[1].req.url)
    /\ session[inflight[1].keyString] = inflight[1].relay
    /\ relays[inflight[1].relay].startflag
    /\ \E i \in RelayIds : i # inflight[1].relay /\ relays[i].startflag

====
